---- MODULE Spec2Model ----
(***************************************************************************)
(* A model of the Tin front end: the line-level parser of parse.rs (built  *)
(* on nom's not_line_ending / line_ending / terminated / complete), its    *)
(* error reporter handle_error, and the HIR value types of hir.rs.         *)
(*                                                                         *)
(* Source text is a sequence of one-character strings.                     *)
(***************************************************************************)
EXTENDS Naturals, Sequences, FiniteSets

VARIABLES input, pc, nom, result, stdout, tydecl, glob, resolved,
          argv, file, mainpc, log, exit, stmts, added, viewed

vars == <<input, pc, nom, result, stdout, tydecl, glob, resolved,
          argv, file, mainpc, log, exit, stmts, added, viewed>>

parseVars == <<input, pc, nom, result, stdout>>

mainVars == <<argv, file, mainpc, log, exit>>

progVars == <<stmts, added, viewed>>

----------------------------------------------------------------------------
(* Bounds *)

MaxLen == 4

MaxVariants == 2

MaxFields == 2

MaxGlobLen == 3

MaxStmts == 3

----------------------------------------------------------------------------
(* Source text *)

LF == "\n"

CR == "\r"

Chars == {LF, CR, "a", "/", "\""}

SeqsUpTo(S, n) == UNION {[1..k -> S] : k \in 0..n}

Take(s, n) == SubSeq(s, 1, n)

Drop(s, n) == SubSeq(s, n + 1, Len(s))

StartsWith(s, p) == Len(s) >= Len(p) /\ Take(s, Len(p)) = p

Min(S) == CHOOSE m \in S : \A k \in S : m <= k

Max(S) == CHOOSE m \in S : \A k \in S : m >= k

\* A type declaration whose only variant mixes a named and an anonymous field.
MixedVariantSource == <<"{", "a", ":", "T", ",", "T", "}", LF>>

\* A one-line program that declares main.
MainSource == <<"f", "n", " ", "m", "a", "i", "n", LF>>

SampleInputs == {MixedVariantSource, MainSource}

Inputs == SeqsUpTo(Chars, MaxLen) \cup SampleInputs

----------------------------------------------------------------------------
(* nom results: IResult<I, O, VerboseError<I>> *)

NomOk(rest, output) == [tag |-> "Ok", rest |-> rest, output |-> output, variant |-> "", errors |-> <<>>]

NomErr(variant, errors) == [tag |-> "Err", rest |-> <<>>, output |-> <<>>, variant |-> variant, errors |-> errors]

\* VerboseError::from_error_kind(input, kind)
from_error_kind(i, kind) == <<[input |-> i, kind |-> kind]>>

\* nom::character::complete::not_line_ending
not_line_ending(i) ==
    LET ends == {k \in 1..Len(i) : i[k] \in {CR, LF}} IN
    IF ends = {} THEN NomOk(<<>>, i)
    ELSE LET index == Min(ends) IN
         IF i[index] = CR
         THEN IF StartsWith(Drop(i, index - 1), <<CR, LF>>)
              THEN NomOk(Drop(i, index - 1), Take(i, index - 1))
              ELSE NomErr("Error", from_error_kind(i, "Tag"))
         ELSE NomOk(Drop(i, index - 1), Take(i, index - 1))

\* Err::Incomplete(Needed)
NomIncomplete == [tag |-> "Incomplete", rest |-> <<>>, output |-> <<>>, variant |-> "", errors |-> <<>>]

\* line_ending that knows only "\n", not "\r\n".
line_ending_LFOnly(i) ==
    IF StartsWith(i, <<LF>>) THEN NomOk(Drop(i, 1), Take(i, 1))
    ELSE NomErr("Error", from_error_kind(i, "CrLf"))

\* nom::character::complete::line_ending
line_ending(i) ==
    IF StartsWith(i, <<LF>>) THEN NomOk(Drop(i, 1), Take(i, 1))
    ELSE IF StartsWith(i, <<CR, LF>>) THEN NomOk(Drop(i, 2), Take(i, 2))
    ELSE NomErr("Error", from_error_kind(i, "CrLf"))

\* nom::sequence::terminated(first, second): r1 is the outcome of first on
\* the input, r2 that of second on what first left.
terminated(r1, r2) ==
    IF r1.tag # "Ok" THEN r1
    ELSE IF r2.tag # "Ok" THEN r2
    ELSE NomOk(r2.rest, r1.output)

\* nom::combinator::complete(f): r is the outcome of f on the input i;
\* Incomplete becomes an ordinary error.
complete(r, i) ==
    IF r.tag = "Incomplete" THEN NomErr("Error", from_error_kind(i, "Complete"))
    ELSE r

line(i) == terminated(not_line_ending(i), line_ending(not_line_ending(i).rest))

\* Program::empty() / Program(Vec::new())
ProgramEmpty == <<>>

\* nom::character::streaming::line_ending: asks for more input where the
\* complete version reports an error at the end of the input.
line_ending_streaming(i) ==
    IF StartsWith(i, <<LF>>) THEN NomOk(Drop(i, 1), Take(i, 1))
    ELSE IF i = <<>> THEN NomIncomplete
    ELSE IF StartsWith(i, <<CR, LF>>) THEN NomOk(Drop(i, 2), Take(i, 2))
    ELSE IF i = <<CR>> THEN NomIncomplete
    ELSE NomErr("Error", from_error_kind(i, "CrLf"))

\* parse_with_errors built on the streaming line_ending and without complete.
parse_with_errors_streaming(i) ==
    LET r == terminated(not_line_ending(i),
                        line_ending_streaming(not_line_ending(i).rest)) IN
    IF r.tag = "Ok" THEN NomOk(r.rest, ProgramEmpty) ELSE r

parse_with_errors(i) ==
    LET r == complete(line(i), i) IN
    IF r.tag = "Ok" THEN NomOk(r.rest, ProgramEmpty) ELSE r

----------------------------------------------------------------------------
(* Error reporter *)

\* nom::error::convert_error, one entry per (substring, kind) of the trace:
\* the line number and column of the substring within the input.
convert_error(i, errors) ==
    [n \in 1..Len(errors) |->
        LET offset == Len(i) - Len(errors[n].input)
            nls == {k \in 1..offset : i[k] = LF}
            line_begin == IF nls = {} THEN 0 ELSE Max(nls)
        IN IF i = <<>>
           THEN [kind |-> errors[n].kind, line |-> 0, column |-> 0]
           ELSE [kind |-> errors[n].kind,
                 line |-> Cardinality(nls) + 1,
                 column |-> offset - line_begin + 1]]

\* The position at which the grammar failed (offset of the first trace entry).
ErrorOffset(i, r) == Len(i) - Len(r.errors[1].input)

\* error::Error
ErrorKinds == {"ParseFailed", "NoFile"}

\* handle_error with the other kind of the Error enumeration returned.
handle_error_NoFile(i, error) ==
    IF error.tag = "Incomplete"
    THEN [panic |-> TRUE, printed |-> <<>>, ret |-> ""]
    ELSE [panic |-> FALSE,
          printed |-> <<convert_error(i, error.errors)>>,
          ret |-> "NoFile"]

\* handle_error: prints the trace, returns anyhow!(Error::ParseFailed)
handle_error(i, error) ==
    IF error.tag = "Incomplete"
    THEN [panic |-> TRUE, printed |-> <<>>, ret |-> ""]
    ELSE [panic |-> FALSE,
          printed |-> <<convert_error(i, error.errors)>>,
          ret |-> "ParseFailed"]

Ok(program) == [tag |-> "Ok", program |-> program, error |-> ""]

Err(e) == [tag |-> "Err", program |-> <<>>, error |-> e]

Panic == [tag |-> "Panic", program |-> <<>>, error |-> ""]

NoResult == [tag |-> "None", program |-> <<>>, error |-> ""]

\* parse: the value returned to the caller
parse(i) ==
    LET r == parse_with_errors(i) IN
    IF r.tag = "Ok" THEN Ok(r.output)
    ELSE LET h == handle_error(i, r) IN
         IF h.panic THEN Panic ELSE Err(h.ret)

\* parse: what it prints on the way
parse_printed(i) ==
    LET r == parse_with_errors(i) IN
    IF r.tag = "Ok" THEN <<>> ELSE handle_error(i, r).printed

----------------------------------------------------------------------------
(* The parse call *)

NoTyDecl == [built |-> FALSE, variants |-> <<>>]

NoResolved == [tag |-> "None", paths |-> <<>>]

NoFileRead == [status |-> "missing", contents |-> <<>>]

NoView == [seen |-> FALSE, slice |-> <<>>]

\* The driver is not running.
MainIdle ==
    /\ argv = <<>>
    /\ file = NoFileRead
    /\ mainpc = "idle"
    /\ log = <<>>
    /\ exit = "running"

\* No Program object is being built by a caller.
ProgIdle ==
    /\ stmts = ProgramEmpty
    /\ added = <<>>
    /\ viewed = NoView

OtherInit ==
    /\ tydecl = NoTyDecl
    /\ glob = <<>>
    /\ resolved = NoResolved
    /\ MainIdle
    /\ ProgIdle

Init ==
    /\ input \in Inputs
    /\ pc = "ready"
    /\ nom = NomOk(<<>>, <<>>)
    /\ result = NoResult
    /\ stdout = <<>>
    /\ OtherInit

Parse ==
    /\ pc = "ready"
    /\ nom' = parse_with_errors(input)
    /\ result' = parse(input)
    /\ stdout' = stdout \o parse_printed(input)
    /\ pc' = "done"
    /\ UNCHANGED <<input, tydecl, glob, resolved, mainVars, progVars>>

Next == Parse

Spec == Init /\ [][Next]_vars

----------------------------------------------------------------------------
(* HIR values *)

None == <<>>

Some(x) == <<x>>

Idents == {"x", "y"}

Tys == {"T"}

\* hir::TyIdent
TyIdent(ident, ty) == [ident |-> Some(ident), ty |-> ty]

\* hir::Fields::Named(Vec<TyIdent>)
Named(fs) == [tag |-> "Named", items |-> fs]

\* hir::Fields::Anonymous(Vec<Ty>)
Anonymous(tys) == [tag |-> "Anonymous", items |-> [k \in DOMAIN tys |-> [ident |-> None, ty |-> tys[k]]]]

FieldsValues ==
    {Named(fs) : fs \in SeqsUpTo({TyIdent(id, ty) : id \in Idents, ty \in Tys}, MaxFields)}
    \cup {Anonymous(tys) : tys \in SeqsUpTo(Tys, MaxFields)}

\* hir::TyVariant { name: Option<Ident>, fields: Fields }
TyVariant(name, fields) == [name |-> name, fields |-> fields]

TyVariantValues ==
    {TyVariant(name, fields) : name \in {None, Some("A")}, fields \in FieldsValues}

\* hir::TyDecl(pub Vec<TyVariant>): any vector of variants makes a TyDecl
TyDecl(variants) == [built |-> TRUE, variants |-> variants]

\* hir::Comment
SingleLine(text) == [tag |-> "SingleLine", lines |-> <<text>>]

MultiLine(lines) == [tag |-> "MultiLine", lines |-> lines]

RECURSIVE Concat(_)
Concat(lines) == IF lines = <<>> THEN <<>> ELSE Head(lines) \o Concat(Tail(lines))

\* impl Display for Comment
Comment_fmt(c) == IF c.tag = "SingleLine" THEN c.lines[1] ELSE Concat(c.lines)

\* PathGlob::resolve(&self): todo!()
resolve(g) == [tag |-> "Panic", paths |-> <<>>]

----------------------------------------------------------------------------
(* Building type declarations *)

InitTy ==
    /\ input = <<>>
    /\ pc = "ready"
    /\ nom = NomOk(<<>>, <<>>)
    /\ result = NoResult
    /\ stdout = <<>>
    /\ OtherInit

NewTyDecl ==
    /\ ~tydecl.built
    /\ \E variants \in SeqsUpTo(TyVariantValues, MaxVariants) :
          tydecl' = TyDecl(variants)
    /\ UNCHANGED <<parseVars, glob, resolved, mainVars, progVars>>

NextTy == NewTyDecl

SpecTy == InitTy /\ [][NextTy]_vars

----------------------------------------------------------------------------
(* Resolving a path glob *)

GlobChars == {"a", "b", "/", "*"}

Globs == SeqsUpTo(GlobChars, MaxGlobLen)

InitGlob ==
    /\ input = <<>>
    /\ pc = "ready"
    /\ nom = NomOk(<<>>, <<>>)
    /\ result = NoResult
    /\ stdout = <<>>
    /\ tydecl = NoTyDecl
    /\ glob \in Globs
    /\ resolved = NoResolved
    /\ MainIdle
    /\ ProgIdle

Resolve ==
    /\ resolved.tag = "None"
    /\ resolved' = resolve(glob)
    /\ UNCHANGED <<parseVars, tydecl, glob, mainVars, progVars>>

NextGlob == Resolve

SpecGlob == InitGlob /\ [][NextGlob]_vars

----------------------------------------------------------------------------
(* The driver: main of tinc *)

\* The command lines the driver is started with (argv[0] is the program).
Argvs == {<<>>, <<"tinc">>, <<"tinc", "f">>, <<"tinc", "f", "g">>}

\* What the named file is on disk: absent, not UTF-8, or a readable text.
Files ==
    {[status |-> "missing", contents |-> <<>>],
     [status |-> "not_utf8", contents |-> <<>>]}
    \cup {[status |-> "ok", contents |-> i] : i \in Inputs}

\* Iterator::nth on args_os(): the n-th argument counted from 0, if any.
nth(args, n) == IF n + 1 <= Len(args) THEN Some(args[n + 1]) ELSE None

\* What main prints for a parsed Program ({:#?} of the tree).
DebugTree(program) == <<[kind |-> "Program", line |-> 0, column |-> Len(program)]>>

InitMain ==
    /\ input = <<>>
    /\ pc = "ready"
    /\ nom = NomOk(<<>>, <<>>)
    /\ result = NoResult
    /\ stdout = <<>>
    /\ tydecl = NoTyDecl
    /\ glob = <<>>
    /\ resolved = NoResolved
    /\ ProgIdle
    /\ argv \in Argvs
    /\ file \in Files
    /\ mainpc = "args"
    /\ log = <<>>
    /\ exit = "running"

\* let file_name = args_os().nth(1).ok_or(Error::NoFile)?;
MainArgs ==
    /\ mainpc = "args"
    /\ IF nth(argv, 1) = None
       THEN mainpc' = "exit" /\ exit' = "NoFile"
       ELSE mainpc' = "read" /\ exit' = exit
    /\ UNCHANGED <<parseVars, tydecl, glob, resolved, argv, file, log, progVars>>

\* let contents = read_file(&file_name)?;
MainRead ==
    /\ mainpc = "read"
    /\ log' = Append(log, "read")
    /\ IF file.status = "ok"
       THEN mainpc' = "parse" /\ input' = file.contents /\ exit' = exit
       ELSE mainpc' = "exit" /\ input' = input /\ exit' = "Io"
    /\ UNCHANGED <<pc, nom, result, stdout, tydecl, glob, resolved, argv, file, progVars>>

\* MainParse without the ? on the parse result: the run goes on to print.
MainParse_NoQuestionMark ==
    /\ mainpc = "parse"
    /\ log' = Append(log, "parse")
    /\ nom' = parse_with_errors(input)
    /\ result' = parse(input)
    /\ stdout' = stdout \o parse_printed(input)
    /\ pc' = "done"
    /\ mainpc' = "print"
    /\ exit' = exit
    /\ UNCHANGED <<input, tydecl, glob, resolved, argv, file, progVars>>

\* let result = parse(&contents)?;
MainParse ==
    /\ mainpc = "parse"
    /\ log' = Append(log, "parse")
    /\ nom' = parse_with_errors(input)
    /\ result' = parse(input)
    /\ stdout' = stdout \o parse_printed(input)
    /\ pc' = "done"
    /\ IF parse(input).tag = "Ok"
       THEN mainpc' = "print" /\ exit' = exit
       ELSE mainpc' = "exit"
            /\ exit' = IF parse(input).tag = "Err" THEN parse(input).error ELSE "panic"
    /\ UNCHANGED <<input, tydecl, glob, resolved, argv, file, progVars>>

\* println!("{:#?}", result); Ok(())
MainPrint ==
    /\ mainpc = "print"
    /\ log' = Append(log, "print")
    /\ stdout' = stdout \o <<DebugTree(result.program)>>
    /\ mainpc' = "exit"
    /\ exit' = "Ok"
    /\ UNCHANGED <<input, pc, nom, result, tydecl, glob, resolved, argv, file, progVars>>

NextMain == MainArgs \/ MainRead \/ MainParse \/ MainPrint

SpecMain == InitMain /\ [][NextMain]_vars

----------------------------------------------------------------------------
(* A caller building a Program *)

\* hir::TopStmt values a caller adds
TopStmts ==
    {[tag |-> "Comment", name |-> "c"],
     [tag |-> "Use", name |-> "a/*"],
     [tag |-> "FnDecl", name |-> "main"]}

\* add_statement that puts the new statement first.
add_statement_front(p, stmt) == <<stmt>> \o p

\* Program::add_statement: self.0.push(stmt)
add_statement(p, stmt) == Append(p, stmt)

\* Program::statements: self.0.as_ref()
statements(p) == [seen |-> TRUE, slice |-> p]

\* Program::statements_mut: self.0.as_mut()
statements_mut(p) == [seen |-> TRUE, slice |-> p]

InitProgram ==
    /\ input = <<>>
    /\ pc = "ready"
    /\ nom = NomOk(<<>>, <<>>)
    /\ result = NoResult
    /\ stdout = <<>>
    /\ tydecl = NoTyDecl
    /\ glob = <<>>
    /\ resolved = NoResolved
    /\ MainIdle
    /\ stmts = ProgramEmpty
    /\ added = <<>>
    /\ viewed = NoView

AddStatement ==
    /\ Len(stmts) < MaxStmts
    /\ \E stmt \in TopStmts :
          /\ stmts' = add_statement(stmts, stmt)
          /\ added' = Append(added, stmt)
    /\ UNCHANGED <<parseVars, tydecl, glob, resolved, mainVars, viewed>>

Statements ==
    /\ viewed' = statements(stmts)
    /\ UNCHANGED <<parseVars, tydecl, glob, resolved, mainVars, stmts, added>>

StatementsMut ==
    /\ viewed' = statements_mut(stmts)
    /\ UNCHANGED <<parseVars, tydecl, glob, resolved, mainVars, stmts, added>>

NextProgram == AddStatement \/ Statements \/ StatementsMut

SpecProgram == InitProgram /\ [][NextProgram]_vars

----------------------------------------------------------------------------
(* Properties of Program (checked under SpecProgram) *)

\* A step that added a statement put it last and moved nothing.
AddedLast ==
    /\ Len(stmts') = Len(stmts) + 1
    /\ \A k \in DOMAIN stmts : stmts'[k] = stmts[k]
    /\ stmts'[Len(stmts')] = added'[Len(added')]

\* A step that viewed the statements returned them all and changed nothing.
ViewedOnly ==
    /\ stmts' = stmts
    /\ viewed' = [seen |-> TRUE, slice |-> added]

\* C14: a Program holds the added statements in call order: each
\* add_statement grows it by one at the end and leaves the earlier statements
\* where they were, and viewing the statements returns them all and changes
\* nothing.
C14_OrderedStatements ==
    /\ [](stmts = added)
    /\ [][IF added' # added THEN AddedLast ELSE ViewedOnly]_vars

\* C14 witness: three statements, not all alike, have been added and viewed.
C14_Witness ==
    /\ Len(added) = 3
    /\ added[1] # added[2]
    /\ added[2] # added[3]
    /\ viewed = [seen |-> TRUE, slice |-> added]

----------------------------------------------------------------------------
(* Properties of the driver (checked under SpecMain) *)

Steps == <<"read", "parse", "print">>

Logged(step) == \E k \in DOMAIN log : log[k] = step

TreePrinted == \E k \in DOMAIN stdout : stdout[k][1].kind = "Program"

\* C11: the driver's steps are ordered. Without a file argument main ends
\* with NoFile having read nothing and parsed nothing; a failed read ends the
\* run before parse; the tree is printed only after parse returned Ok; and a
\* run that ended with NoFile, a read error or ParseFailed printed no tree.
C11_DriverOrder ==
    /\ log = Take(Steps, Len(log))
    /\ (mainpc # "args" /\ nth(argv, 1) = None) =>
          (exit = "NoFile" /\ mainpc = "exit" /\ log = <<>> /\ result = NoResult)
    /\ exit = "NoFile" => nth(argv, 1) = None
    /\ (Logged("read") /\ file.status # "ok") =>
          (exit = "Io" /\ mainpc = "exit" /\ ~Logged("parse") /\ result = NoResult)
    /\ exit = "Io" => file.status # "ok"
    /\ Logged("print") => (result.tag = "Ok" /\ exit = "Ok")
    /\ TreePrinted <=> Logged("print")
    /\ exit \in {"NoFile", "Io", "ParseFailed"} =>
          (mainpc = "exit" /\ ~Logged("print") /\ ~TreePrinted)
    /\ exit = "ParseFailed" => (result.tag = "Err" /\ Logged("parse"))

\* C11 witness: a run has ended with ParseFailed after reading and parsing.
C11_Witness ==
    /\ mainpc = "exit"
    /\ exit = "ParseFailed"
    /\ log = <<"read", "parse">>
    /\ Len(stdout) = 1

----------------------------------------------------------------------------
(* Properties of the parse call (checked under Spec) *)

\* The number of top-level FnDecl statements named main.
MainCount(program) ==
    Cardinality({k \in DOMAIN program :
                    program[k].tag = "FnDecl" /\ program[k].name = "main"})

\* C1: every Program that parse returns with Ok holds exactly one
\* top-level function declaration named main.
C1_ExactlyOneMain ==
    (pc = "done" /\ result.tag = "Ok") => MainCount(result.program) = 1

\* C2: a grammar failure makes parse return the one failure ParseFailed and
\* no Program, with one trace printed; Err::Error and Err::Failure are
\* classified alike, whatever the trace holds.
C2_AllOrNothing ==
    /\ (pc = "done" /\ nom.tag = "Err") =>
          /\ result.tag = "Err"
          /\ result.error = "ParseFailed"
          /\ result.program = <<>>
          /\ Len(stdout) = 1
    /\ (pc = "done" /\ result.tag = "Ok") => (nom.tag = "Ok" /\ stdout = <<>>)
    /\ \A variant \in {"Error", "Failure"} :
         \A kind \in {"Tag", "CrLf", "Complete"} :
           \A k \in 0..Len(input) :
             LET h == handle_error(input,
                        NomErr(variant, from_error_kind(Drop(input, k), kind)))
             IN ~h.panic /\ h.ret = "ParseFailed" /\ Len(h.printed) = 1

\* C2 witness: a parse of a non-empty input has failed.
C2_Witness ==
    /\ pc = "done"
    /\ input # <<>>
    /\ nom.tag = "Err"
    /\ result.tag = "Err"

\* C12: parse never panics and the trace changes nothing: every call ends
\* with Ok or with ParseFailed, as the grammar's outcome says; the line
\* parser under complete never yields Incomplete, and complete turns an
\* Incomplete into an error that handle_error classifies without panicking.
C12_NeverPanics ==
    /\ pc = "done" =>
          /\ result.tag \in {"Ok", "Err"}
          /\ result.tag = nom.tag
          /\ result.tag = "Err" => result.error = "ParseFailed"
    /\ nom.tag # "Incomplete"
    /\ complete(line(input), input).tag # "Incomplete"
    /\ complete(NomIncomplete, input).tag = "Err"
    /\ ~handle_error(input, complete(NomIncomplete, input)).panic

\* C12 witness: a parse has failed on a lone carriage return and its trace
\* has been rendered.
C12_Witness ==
    /\ pc = "done"
    /\ result.tag = "Err"
    /\ Len(stdout) = 1
    /\ stdout[1][1].kind = "Tag"

\* The first line break of the input exists and is "\n" or "\r\n".
FirstLineClosed(i) ==
    \E k \in 1..Len(i) :
        /\ i[k] \in {CR, LF}
        /\ \A j \in 1..(k - 1) : i[j] \notin {CR, LF}
        /\ \/ i[k] = LF
           \/ (k < Len(i) /\ i[k + 1] = LF)

C3_ConsumesWholeInput ==
    (pc = "done" /\ result.tag = "Ok") => nom.rest = <<>>

\* The text of the first line of the input (without its line ending).
FirstLine(i) ==
    LET ends == {k \in 1..Len(i) : i[k] \in {CR, LF}} IN
    IF ends = {} THEN i ELSE Take(i, Min(ends) - 1)

\* A line that opens a string literal and never closes it.
UnterminatedString(l) ==
    Cardinality({k \in 1..Len(l) : l[k] = "\""}) % 2 = 1

\* C4: an input whose leading construct is not a top-level statement (here a
\* string literal), or whose first line holds an unterminated string
\* literal, is rejected with ParseFailed.
C4_RejectsNonStatements ==
    (/\ pc = "done"
     /\ \/ StartsWith(input, <<"\"">>)
        \/ UnterminatedString(FirstLine(input)))
    => (result.tag = "Err" /\ result.error = "ParseFailed")

\* C6: the returned ParseFailed value determines the position of the
\* failure: no other input fails with the same error value at another place.
C6_ErrorCarriesPosition ==
    (pc = "done" /\ result.tag = "Err") =>
        \A j \in Inputs :
            parse(j) = result =>
                ErrorOffset(j, parse_with_errors(j)) = ErrorOffset(input, nom)

\* The fields written between braces on a line, as index pairs (p, q) of
\* neighbouring separators.
FieldSpans(l) ==
    LET seps == {k \in 1..Len(l) : l[k] \in {"{", ",", "}"}} IN
    {<<p, q>> \in seps \X seps :
        /\ p + 1 < q
        /\ l[p] # "}"
        /\ l[q] # "{"
        /\ \A k \in (p + 1)..(q - 1) : k \notin seps}

IsNamedSpan(l, span) == \E k \in (span[1] + 1)..(span[2] - 1) : l[k] = ":"

\* A variant's source text that has both a named and an anonymous field.
MixesFields(l) ==
    /\ \E span \in FieldSpans(l) : IsNamedSpan(l, span)
    /\ \E span \in FieldSpans(l) : ~IsNamedSpan(l, span)

\* C9: source text of a type variant that mixes named and anonymous fields
\* fails to parse.
C9_MixedFieldsRejected ==
    (pc = "done" /\ MixesFields(FirstLine(input))) => result.tag = "Err"

\* A whole input that is one single-line comment: the marker, text, a line
\* ending.
IsSingleLineComment(i) ==
    /\ Len(i) >= 3
    /\ StartsWith(i, <<"/", "/">>)
    /\ i[Len(i)] = LF
    /\ \A k \in 1..(Len(i) - 1) : i[k] \notin {CR, LF}

\* Where line k starts in the rendering of a multi-line comment.
LineStart(lines, k) == Len(Concat(Take(lines, k - 1)))

\* C10: parsing a single-line comment yields a Comment statement that
\* renders as the original text (with or without the marker), and a
\* multi-line comment renders its lines in stored order.
C10_CommentRoundTrip ==
    /\ (pc = "done" /\ IsSingleLineComment(input)) =>
          /\ result.tag = "Ok"
          /\ \E k \in DOMAIN result.program :
                /\ result.program[k].tag = "Comment"
                /\ Comment_fmt(result.program[k].comment)
                      \in {Take(input, Len(input) - 1),
                           SubSeq(input, 3, Len(input) - 1)}
    /\ \A lines \in SeqsUpTo({<<"a">>, <<"/", "a">>}, 2) :
          \A k \in DOMAIN lines : \A j \in DOMAIN lines[k] :
            Comment_fmt(MultiLine(lines))[LineStart(lines, k) + j] = lines[k][j]

----------------------------------------------------------------------------
(* Properties of type declarations (checked under SpecTy) *)

\* C8: a TyDecl with two or more variants never has an unnamed variant.
C8_NamingInvariant ==
    (tydecl.built /\ Len(tydecl.variants) >= 2) =>
        \A k \in DOMAIN tydecl.variants : tydecl.variants[k].name # None

----------------------------------------------------------------------------
(* Properties of glob resolution (checked under SpecGlob) *)

\* The module paths known to the caller.
Universe == << <<"a", "/", "x">>, <<"a", "/", "y">>, <<"b", "/", "z">> >>

\* Shell-style matching: * matches any run of characters within a segment.
RECURSIVE GlobMatch(_, _)
GlobMatch(g, path) ==
    IF g = <<>> THEN path = <<>>
    ELSE IF Head(g) = "*"
         THEN \E k \in 0..Len(path) :
                /\ \A j \in 1..k : path[j] # "/"
                /\ GlobMatch(Tail(g), Drop(path, k))
         ELSE /\ path # <<>>
              /\ Head(path) = Head(g)
              /\ GlobMatch(Tail(g), Tail(path))

MatchesOf(g) == SelectSeq(Universe, LAMBDA path : GlobMatch(g, path))

\* C7: resolve always returns, and returns exactly the universe's paths that
\* match the glob, in the universe's order.
C7_ResolveMatches ==
    resolved.tag # "None" =>
        (resolved.tag = "Ok" /\ resolved.paths = MatchesOf(glob))

====
